---- MODULE Spec2Model ----
(***************************************************************************)
(* RBAC permission-resolution engine of the task-management backend:       *)
(* RBACHelper (src/common/utils/rbacHelper.ts) over the persisted          *)
(* user -> role -> permission graph, together with the operations that     *)
(* populate that graph (AuthorizationSeeder, user registration).           *)
(*                                                                         *)
(* The store is three tables.  A role row is identified by its unique      *)
(* name and a user row by its unique key (the e-mail of a seeded sample    *)
(* user, an opaque id otherwise); the generated uuids are in bijection     *)
(* with these keys in every store state.  user.role is kept as the list    *)
(* the ORM loads, so that a duplicated membership is representable.        *)
(***************************************************************************)
EXTENDS Integers, Sequences, FiniteSets, TLC

\* permRows, roleRows, userRows: the permissions, roles and users tables with
\* their join tables.  call: the operation a caller has invoked and not yet
\* taken the result of.  prev: the last store-writing operation whose result
\* was taken.  accounts: the isActive and password columns of the users
\* table.  inflight: the requests two concurrent callers have under way, each
\* with what it has read so far.
VARIABLES permRows, roleRows, userRows, call, prev, accounts, inflight

vars == <<permRows, roleRows, userRows, call, prev, accounts, inflight>>

\* ---------------------------------------------------------------- bounds

\* longest permission-name / role-name list handed to a query
MaxListLen == 2

\* user ids the operations are invoked with: a seeded sample user, a
\* registered user and an id no user row ever has
UserIdInputs == {"guest@trello.com", "u1", "ghost"}

\* ids user registration creates rows for
RegisterIds == {"u1"}

\* role names handed to assignRoleToUser / removeRoleFromUser
RoleNameInputs == {"admin", "guest", "no_such_role"}

\* role names handed to the hierarchy queries: the eight table keys and two
\* names absent from the table
HierarchyInputs ==
    {"admin", "workspace_admin", "board_owner", "board_admin", "board_member",
     "board_observer", "user", "guest", "no_such_role", "constructor"}

\* permission names handed to the permission queries
PermissionInputs == {"boards:read", "cards:create", "boards:delete"}

\* ---------------------------------------------------------------- helpers

Range(s) == {s[i] : i \in 1..Len(s)}

SeqsUpTo(S, n) == UNION {[1..k -> S] : k \in 0..n}

Count(x, s) == Cardinality({i \in 1..Len(s) : s[i] = x})

\* Array.prototype.includes
Includes(s, x) == \E i \in 1..Len(s) : s[i] = x

\* Set.prototype.add on an insertion-ordered Set
SetAdd(acc, x) == IF Includes(acc, x) THEN acc ELSE Append(acc, x)

\* ---------------------------------------------------------------- seed data

\* permissionsData; res is the part of the name before the colon, which the
\* role filters match with includes('<res>:')
permissionsData == <<
    [name |-> "boards:create", res |-> "boards"], [name |-> "boards:read", res |-> "boards"],
    [name |-> "boards:update", res |-> "boards"], [name |-> "boards:delete", res |-> "boards"],
    [name |-> "boards:manage", res |-> "boards"], [name |-> "lists:create", res |-> "lists"],
    [name |-> "lists:read", res |-> "lists"], [name |-> "lists:update", res |-> "lists"],
    [name |-> "lists:delete", res |-> "lists"], [name |-> "lists:archive", res |-> "lists"],
    [name |-> "cards:create", res |-> "cards"], [name |-> "cards:read", res |-> "cards"],
    [name |-> "cards:update", res |-> "cards"], [name |-> "cards:delete", res |-> "cards"],
    [name |-> "cards:assign", res |-> "cards"], [name |-> "cards:move", res |-> "cards"],
    [name |-> "cards:archive", res |-> "cards"], [name |-> "comments:create", res |-> "comments"],
    [name |-> "comments:read", res |-> "comments"], [name |-> "comments:update", res |-> "comments"],
    [name |-> "comments:delete", res |-> "comments"], [name |-> "comments:moderate", res |-> "comments"],
    [name |-> "members:invite", res |-> "members"], [name |-> "members:remove", res |-> "members"],
    [name |-> "members:read", res |-> "members"], [name |-> "members:manage", res |-> "members"],
    [name |-> "labels:create", res |-> "labels"], [name |-> "labels:read", res |-> "labels"],
    [name |-> "labels:update", res |-> "labels"], [name |-> "labels:delete", res |-> "labels"],
    [name |-> "checklists:create", res |-> "checklists"], [name |-> "checklists:read", res |-> "checklists"],
    [name |-> "checklists:update", res |-> "checklists"], [name |-> "checklists:delete", res |-> "checklists"],
    [name |-> "attachments:create", res |-> "attachments"], [name |-> "attachments:read", res |-> "attachments"],
    [name |-> "attachments:delete", res |-> "attachments"], [name |-> "notifications:read", res |-> "notifications"],
    [name |-> "notifications:manage", res |-> "notifications"], [name |-> "workspaces:create", res |-> "workspaces"],
    [name |-> "workspaces:read", res |-> "workspaces"], [name |-> "workspaces:update", res |-> "workspaces"],
    [name |-> "workspaces:delete", res |-> "workspaces"], [name |-> "workspaces:manage", res |-> "workspaces"],
    [name |-> "users:read", res |-> "users"], [name |-> "users:update", res |-> "users"],
    [name |-> "users:manage", res |-> "users"], [name |-> "users:delete", res |-> "users"],
    [name |-> "reports:read", res |-> "reports"], [name |-> "reports:export", res |-> "reports"],
    [name |-> "system:admin", res |-> "system"], [name |-> "system:backup", res |-> "system"],
    [name |-> "system:maintenance", res |-> "system"]
>>

CatalogNames == [i \in 1..Len(permissionsData) |-> permissionsData[i].name]

\* rolesData[...].permissions filter predicates
RoleFilter(roleName, p) ==
    CASE roleName = "admin" ->
            \/ p.res = "system" \/ p.name = "users:manage" \/ p.name = "users:delete"
            \/ p.res \in {"workspaces", "reports", "boards", "lists", "cards", "comments",
                          "members", "labels", "checklists", "attachments", "notifications"}
      [] roleName = "workspace_admin" ->
            \/ p.res \in {"workspaces", "boards", "lists", "cards", "comments", "members",
                          "labels", "checklists", "attachments", "notifications"}
            \/ p.name \in {"reports:read", "users:read", "users:update"}
      [] roleName = "board_owner" ->
            \/ p.res \in {"boards", "lists", "cards", "comments", "members", "labels",
                          "checklists", "attachments", "notifications"}
            \/ p.name \in {"users:read", "users:update"}
      [] roleName = "board_admin" ->
            \/ p.name \in {"boards:read", "boards:update", "members:invite",
                           "members:remove", "members:read", "users:read", "users:update"}
            \/ p.res \in {"lists", "cards", "comments", "labels", "checklists",
                          "attachments", "notifications"}
      [] roleName = "board_member" ->
            \/ p.name \in {"boards:read", "lists:read", "lists:create", "lists:update",
                           "comments:create", "comments:read", "comments:update",
                           "comments:delete", "members:read", "labels:read",
                           "labels:create", "users:read", "users:update"}
            \/ p.res \in {"cards", "checklists", "attachments", "notifications"}
      [] roleName = "board_observer" ->
            p.name \in {"boards:read", "lists:read", "cards:read", "comments:read",
                        "members:read", "labels:read", "checklists:read",
                        "attachments:read", "notifications:read", "users:read",
                        "users:update"}
      [] roleName = "user" ->
            p.name \in {"boards:create", "boards:read", "workspaces:create",
                        "workspaces:read", "users:read", "users:update",
                        "notifications:read", "notifications:manage"}
      [] roleName = "guest" ->
            p.name \in {"boards:read", "lists:read", "cards:read", "comments:read",
                        "members:read", "labels:read", "checklists:read",
                        "attachments:read", "users:read"}
      [] OTHER -> FALSE

\* rolesData: the role names in seeding order
rolesData == <<"admin", "workspace_admin", "board_owner", "board_admin",
               "board_member", "board_observer", "user", "guest">>

\* the permission set rolesData gives a role
SeedPermissions(roleName) ==
    {permissionsData[i].name : i \in {j \in 1..Len(permissionsData) :
                                         RoleFilter(roleName, permissionsData[j])}}

\* usersData: sample users and the role each is created with
usersData == <<
    [email |-> "admin@trello.com", roleName |-> "admin",
     password |-> "admin123"],
    [email |-> "workspace.admin@trello.com", roleName |-> "workspace_admin",
     password |-> "workspace123"],
    [email |-> "board.owner@trello.com", roleName |-> "board_owner",
     password |-> "board123"],
    [email |-> "member@trello.com", roleName |-> "board_member",
     password |-> "member123"],
    [email |-> "observer@trello.com", roleName |-> "board_observer",
     password |-> "observer123"],
    [email |-> "user@trello.com", roleName |-> "user",
     password |-> "user123"],
    [email |-> "guest@trello.com", roleName |-> "guest",
     password |-> "guest123"]
>>

SampleEmails == {usersData[i].email : i \in 1..Len(usersData)}

SampleRole(email) ==
    usersData[CHOOSE i \in 1..Len(usersData) : usersData[i].email = email].roleName

SamplePassword(email) ==
    usersData[CHOOSE i \in 1..Len(usersData) : usersData[i].email = email].password

\* bcrypt.hash(password, 10): a value that is not the password and that
\* bcrypt.compare matches against that password alone
Hash(password) == <<"bcrypt", password>>

\* the password a user registers with
RegisterPassword == "secret"

\* ---------------------------------------------------------------- store reads

\* userRepository.findOne({ where: { id } }) found a row
UserExists(userId) == userId \in DOMAIN userRows

\* roleRepository.findOne({ where: { name } }) found a row
RoleExists(roleName) == roleName \in DOMAIN roleRows

\* user.role as loaded with relations: ['role']
\* LoadedRoles answered from a cache filled before the last removal
LoadedRolesCached(userId) ==
    IF prev.op = "removeRoleFromUser" /\ prev.userId = userId /\ prev.ret
    THEN Append(userRows[userId], prev.name)
    ELSE userRows[userId]

LoadedRoles(userId) == userRows[userId]

\* role.permissions as loaded with relations: ['role.permissions'], in
\* catalog order, a row under a name outside the catalog last
LoadedPermissions(roleName) ==
    IF RoleExists(roleName)
    THEN SelectSeq(CatalogNames \o <<"boards:archive">>,
                   LAMBDA n : n \in roleRows[roleName])
    ELSE <<>>

\* ---------------------------------------------------------------- queries

\* AddAll collecting into an array instead of a Set
AddAllNoDedup(acc, names) == acc \o names

\* role.permissions.forEach((permission) => permissions.add(permission.name));
\* the loaded role.permissions holds each permission row once
AddAll(acc, names) == acc \o SelectSeq(names, LAMBDA n : ~Includes(acc, n))

RECURSIVE CollectPermissions(_, _)
\* user.role.forEach((role) => ...) over the Set<string> acc
CollectPermissions(acc, roles) ==
    IF roles = <<>> THEN acc
    ELSE CollectPermissions(AddAll(acc, LoadedPermissions(Head(roles))), Tail(roles))

getUserPermissions(userId) ==
    IF ~UserExists(userId) THEN <<>>
    ELSE CollectPermissions(<<>>, LoadedRoles(userId))

userHasPermission(userId, permissionName) ==
    Includes(getUserPermissions(userId), permissionName)

\* userHasAnyPermission with every in place of some
userHasAnyPermissionEvery(userId, permissionNames) ==
    LET userPermissions == getUserPermissions(userId)
    IN  \A i \in 1..Len(permissionNames) : Includes(userPermissions, permissionNames[i])

userHasAnyPermission(userId, permissionNames) ==
    LET userPermissions == getUserPermissions(userId)
    IN  \E i \in 1..Len(permissionNames) : Includes(userPermissions, permissionNames[i])

\* userHasAllPermissions with some in place of every
userHasAllPermissionsSome(userId, permissionNames) ==
    LET userPermissions == getUserPermissions(userId)
    IN  \E i \in 1..Len(permissionNames) : Includes(userPermissions, permissionNames[i])

userHasAllPermissions(userId, permissionNames) ==
    LET userPermissions == getUserPermissions(userId)
    IN  \A i \in 1..Len(permissionNames) : Includes(userPermissions, permissionNames[i])

getUserRoles(userId) ==
    IF ~UserExists(userId) THEN <<>> ELSE LoadedRoles(userId)

userHasRole(userId, roleName) == Includes(getUserRoles(userId), roleName)

\* userHasAnyRole with every in place of some
userHasAnyRoleEvery(userId, roleNames) ==
    LET userRoles == getUserRoles(userId)
    IN  \A i \in 1..Len(roleNames) : Includes(userRoles, roleNames[i])

userHasAnyRole(userId, roleNames) ==
    LET userRoles == getUserRoles(userId)
    IN  \E i \in 1..Len(roleNames) : Includes(userRoles, roleNames[i])

\* getRolePermissions answering for an unknown role with the whole catalog
getRolePermissionsDefaultAll(roleName) ==
    IF RoleExists(roleName) THEN LoadedPermissions(roleName) ELSE CatalogNames

getRolePermissions(roleName) == LoadedPermissions(roleName)

\* userCanAccessResource without the ownership short-circuit
userCanAccessResourceNoOwner(userId, resourceOwnerId, requiredPermissions) ==
    userHasAnyPermission(userId, requiredPermissions)

\* userCanAccessResource falling back to userHasAllPermissions
userCanAccessResourceAll(userId, resourceOwnerId, requiredPermissions) ==
    IF userId = resourceOwnerId THEN TRUE
    ELSE userHasAllPermissions(userId, requiredPermissions)

userCanAccessResource(userId, resourceOwnerId, requiredPermissions) ==
    IF userId = resourceOwnerId THEN TRUE
    ELSE userHasAnyPermission(userId, requiredPermissions)

\* A JavaScript value getRoleHierarchy can evaluate to: a number, or a member
\* the object literal inherits from Object.prototype
JsNumber(n) == [type |-> "number", num |-> n]

JsFunction == [type |-> "function", num |-> 0]

\* hierarchy without its last entry
hierarchyWithoutGuest ==
    [r \in {"admin", "workspace_admin", "board_owner", "board_admin", "board_member",
            "board_observer", "user"} |->
        CASE r = "admin" -> 100
          [] r = "workspace_admin" -> 80
          [] r = "board_owner" -> 60
          [] r = "board_admin" -> 50
          [] r = "board_member" -> 30
          [] r = "board_observer" -> 20
          [] r = "user" -> 10]

\* own properties of the hierarchy object literal
hierarchy ==
    [r \in {"admin", "workspace_admin", "board_owner", "board_admin", "board_member",
            "board_observer", "user", "guest"} |->
        CASE r = "admin" -> 100
          [] r = "workspace_admin" -> 80
          [] r = "board_owner" -> 60
          [] r = "board_admin" -> 50
          [] r = "board_member" -> 30
          [] r = "board_observer" -> 20
          [] r = "user" -> 10
          [] r = "guest" -> 5]

\* property names every object literal inherits (those among the inputs)
InheritedKeys == {"constructor", "toString"}

\* hierarchy[roleName] || 0
getRoleHierarchy(roleName) ==
    IF roleName \in DOMAIN hierarchy THEN JsNumber(hierarchy[roleName])
    ELSE IF roleName \in InheritedKeys THEN JsFunction
    ELSE JsNumber(0)

\* a >= b on JavaScript values: a function operand converts to NaN and every
\* comparison with NaN is false
JsGreaterEq(a, b) == a.type = "number" /\ b.type = "number" /\ a.num >= b.num

\* userHasMinimumRoleLevel comparing with > in place of >=
userHasMinimumRoleLevelStrict(userId, minimumRole) ==
    LET userRoles == getUserRoles(userId)
        minimumLevel == getRoleHierarchy(minimumRole)
    IN  \E i \in 1..Len(userRoles) :
            /\ JsGreaterEq(getRoleHierarchy(userRoles[i]), minimumLevel)
            /\ getRoleHierarchy(userRoles[i]) # minimumLevel

\* userHasMinimumRoleLevel comparing the user's highest level, 0 without roles
userHasMinimumRoleLevelMax(userId, minimumRole) ==
    LET userRoles == getUserRoles(userId)
        minimumLevel == getRoleHierarchy(minimumRole)
    IN  \/ \E i \in 1..Len(userRoles) : JsGreaterEq(getRoleHierarchy(userRoles[i]), minimumLevel)
        \/ JsGreaterEq(JsNumber(0), minimumLevel)

userHasMinimumRoleLevel(userId, minimumRole) ==
    LET userRoles == getUserRoles(userId)
        minimumLevel == getRoleHierarchy(minimumRole)
    IN  \E i \in 1..Len(userRoles) : JsGreaterEq(getRoleHierarchy(userRoles[i]), minimumLevel)

\* export const PERMISSIONS
PERMISSIONS ==
    [BOARDS_CREATE |-> "boards:create", BOARDS_READ |-> "boards:read",
     BOARDS_UPDATE |-> "boards:update", BOARDS_DELETE |-> "boards:delete",
     BOARDS_MANAGE |-> "boards:manage", LISTS_CREATE |-> "lists:create",
     LISTS_READ |-> "lists:read", LISTS_UPDATE |-> "lists:update",
     LISTS_DELETE |-> "lists:delete", LISTS_ARCHIVE |-> "lists:archive",
     CARDS_CREATE |-> "cards:create", CARDS_READ |-> "cards:read",
     CARDS_UPDATE |-> "cards:update", CARDS_DELETE |-> "cards:delete",
     CARDS_ASSIGN |-> "cards:assign", CARDS_MOVE |-> "cards:move",
     CARDS_ARCHIVE |-> "cards:archive", MEMBERS_INVITE |-> "members:invite",
     MEMBERS_REMOVE |-> "members:remove", MEMBERS_READ |-> "members:read",
     MEMBERS_MANAGE |-> "members:manage", SYSTEM_ADMIN |-> "system:admin",
     USERS_MANAGE |-> "users:manage", WORKSPACES_MANAGE |-> "workspaces:manage"]

\* export const ROLES
ROLES ==
    [ADMIN |-> "admin", WORKSPACE_ADMIN |-> "workspace_admin",
     BOARD_OWNER |-> "board_owner", BOARD_ADMIN |-> "board_admin",
     BOARD_MEMBER |-> "board_member", BOARD_OBSERVER |-> "board_observer",
     USER |-> "user", GUEST |-> "guest"]

\* ---------------------------------------------------------------- calls

\* the last operation invoked: its arguments, what it loaded and its result
NoCall ==
    [op |-> "none", userId |-> "", ownerId |-> "", name |-> "", names |-> <<>>,
     before |-> <<>>, ret |-> FALSE, list |-> <<>>, level |-> JsNumber(0),
     saved |-> FALSE, threw |-> FALSE, failedAt |-> 0,
     connected |-> FALSE, ran |-> "none", closed |-> FALSE, exit |-> 0,
     password |-> "", status |-> 0, message |-> "", success |-> FALSE,
     token |-> FALSE, compared |-> FALSE, lookups |-> 0, updates |-> 0]

NoPrev == [op |-> "none", userId |-> "", name |-> "", ret |-> FALSE]

Writers == {"seedRolesAndPermissions", "down", "createUser", "assignRoleToUser",
            "removeRoleFromUser", "runSeeder"}

\* the engine serves one caller at a time here
Idle == call.op = "none"

PermissionLists == SeqsUpTo(PermissionInputs, MaxListLen)

OwnerIdInputs == {"u1", "ghost"}

RoleLists == SeqsUpTo(RoleNameInputs, MaxListLen)

\* ---------------------------------------------------------------- state

\* permission rows an earlier version of permissionsData left behind, one of
\* them under a name the catalog no longer has
LegacyPermissions == {"boards:read", "boards:delete", "boards:archive"}

\* role rows an earlier version of rolesData left behind: guest as it was
\* defined then, with permissions its current definition does not give it
LegacyRoles == [r \in {"guest"} |-> LegacyPermissions]

\* two callers whose requests run concurrently
Callers == {"a", "b"}

\* a request under way: the operation and its arguments, how far it has got
\* (pc), the user.role list and the rows it found, and its result
NoRequest ==
    [op |-> "none", userId |-> "", name |-> "", pc |-> "idle", found |-> FALSE,
     roleFound |-> FALSE, loaded |-> <<>>, ret |-> FALSE, list |-> <<>>,
     saved |-> FALSE]

\* no request under way; base is the users table as it was when the requests
\* under way were issued
NoFlight == [base |-> [u \in {} |-> <<>>], of |-> [c \in Callers |-> NoRequest]]

\* a fresh database, or one seeded by that earlier version
Init ==
    /\ \/ permRows = {} /\ roleRows = [r \in {} |-> {}]
       \/ permRows = LegacyPermissions /\ roleRows = LegacyRoles
    /\ userRows = [u \in {} |-> <<>>]
    /\ call = NoCall
    /\ prev = NoPrev
    /\ accounts = [u \in {} |-> [isActive |-> FALSE, password |-> <<>>]]
    /\ inflight = NoFlight

\* ---------------------------------------------------------------- store writers

\* the permissions table after the "Create permissions" loop has handled the
\* catalog names in done: a row is created for a name that has none
SeededPermissions(perms, done) == perms \cup done

\* SeededRoles adding the seed's permissions to those an existing role has
SeededRolesMerge(roles, done) ==
    [r \in DOMAIN roles \cup done |->
        IF r \notin done THEN roles[r]
        ELSE IF r \in DOMAIN roles THEN roles[r] \cup SeedPermissions(r)
        ELSE SeedPermissions(r)]

\* the roles table after the "Create roles" loop has handled the role names
\* in done: created with, or overwritten to, the permissions rolesData gives
SeededRoles(roles, done) ==
    [r \in DOMAIN roles \cup done |->
        IF r \in done THEN SeedPermissions(r) ELSE roles[r]]

\* SeededUsers pushing the seed role onto an existing sample user's roles
SeededUsersPush(users, done) ==
    [u \in DOMAIN users \cup done |->
        IF u \notin done THEN users[u]
        ELSE IF u \in DOMAIN users THEN Append(users[u], SampleRole(u))
        ELSE <<SampleRole(u)>>]

\* SeededUsers leaving an existing sample user as it is
SeededUsersKeepExisting(users, done) ==
    [u \in DOMAIN users \cup done |->
        IF u \in DOMAIN users THEN users[u] ELSE <<SampleRole(u)>>]

\* the users table after the "Create users" loop has handled the sample
\* e-mails in done: created with, or reset to, role: [role]
SeededUsers(users, done) ==
    [u \in DOMAIN users \cup done |->
        IF u \in done THEN <<SampleRole(u)>> ELSE users[u]]

\* the isActive and password columns after the "Create users" loop has
\* handled the sample e-mails in done: set for a created user, left as they
\* are for an existing one
SeededAccounts(accs, done) ==
    [u \in DOMAIN accs \cup done |->
        IF u \in DOMAIN accs THEN accs[u]
        ELSE [isActive |-> TRUE, password |-> Hash(SamplePassword(u))]]

seedRolesAndPermissions ==
    /\ Idle
    /\ UNCHANGED <<prev, inflight>>
    /\ accounts' = SeededAccounts(accounts, SampleEmails)
    /\ permRows' = SeededPermissions(permRows, Range(CatalogNames))
    /\ roleRows' = SeededRoles(roleRows, Range(rolesData))
    /\ userRows' = SeededUsers(userRows, SampleEmails)
    /\ call' = [NoCall EXCEPT !.op = "seedRolesAndPermissions"]

down ==
    /\ Idle
    /\ UNCHANGED <<prev, inflight>>
    /\ accounts' = [u \in {} |-> [isActive |-> FALSE, password |-> <<>>]]
    /\ userRows' = [u \in {} |-> <<>>]
    /\ roleRows' = [r \in {} |-> {}]
    /\ permRows' = {}
    /\ call' = [NoCall EXCEPT !.op = "down"]

\* a registered user starts with no role and, isActive defaulting to false,
\* not activated
createUser(userId) ==
    /\ Idle
    /\ UNCHANGED <<prev, inflight>>
    /\ accounts' = [u \in DOMAIN accounts \cup {userId} |->
                       IF u = userId
                       THEN [isActive |-> FALSE, password |-> Hash(RegisterPassword)]
                       ELSE accounts[u]]
    /\ ~UserExists(userId)
    /\ userRows' = [u \in DOMAIN userRows \cup {userId} |->
                       IF u = userId THEN <<>> ELSE userRows[u]]
    /\ call' = [NoCall EXCEPT !.op = "createUser", !.userId = userId]
    /\ UNCHANGED <<permRows, roleRows>>

\* assignOutcome without the hasRole check
assignOutcomeNoHasRole(userId, roleName) ==
    IF ~UserExists(userId) \/ ~RoleExists(roleName)
    THEN [ret |-> FALSE, save |-> FALSE, role |-> <<>>]
    ELSE [ret |-> TRUE, save |-> TRUE, role |-> Append(LoadedRoles(userId), roleName)]

\* assignOutcome checking only that the user was found
assignOutcomeUserOnly(userId, roleName) ==
    IF ~UserExists(userId)
    THEN [ret |-> FALSE, save |-> FALSE, role |-> <<>>]
    ELSE IF (\E i \in 1..Len(LoadedRoles(userId)) : LoadedRoles(userId)[i] = roleName)
    THEN [ret |-> TRUE, save |-> FALSE, role |-> LoadedRoles(userId)]
    ELSE [ret |-> TRUE, save |-> TRUE, role |-> Append(LoadedRoles(userId), roleName)]

\* assignOutcome saving the new role alone instead of pushing it
assignOutcomeReplace(userId, roleName) ==
    IF ~UserExists(userId) \/ ~RoleExists(roleName)
    THEN [ret |-> FALSE, save |-> FALSE, role |-> <<>>]
    ELSE IF (\E i \in 1..Len(LoadedRoles(userId)) : LoadedRoles(userId)[i] = roleName)
    THEN [ret |-> TRUE, save |-> FALSE, role |-> LoadedRoles(userId)]
    ELSE [ret |-> TRUE, save |-> TRUE, role |-> <<roleName>>]

\* what assignRoleToUser returns, whether it saves, and the user.role it saves
assignOutcome(userId, roleName) ==
    IF ~UserExists(userId) \/ ~RoleExists(roleName)
    THEN [ret |-> FALSE, save |-> FALSE, role |-> <<>>]
    ELSE IF (\E i \in 1..Len(LoadedRoles(userId)) : LoadedRoles(userId)[i] = roleName)
    THEN [ret |-> TRUE, save |-> FALSE, role |-> LoadedRoles(userId)]
    ELSE [ret |-> TRUE, save |-> TRUE, role |-> Append(LoadedRoles(userId), roleName)]

assignRoleToUser(userId, roleName) ==
    LET out == assignOutcome(userId, roleName)
    IN  /\ Idle
        /\ UNCHANGED <<prev, accounts, inflight>>
        /\ userRows' = IF out.save THEN [userRows EXCEPT ![userId] = out.role] ELSE userRows
        /\ call' = [NoCall EXCEPT !.op = "assignRoleToUser", !.userId = userId,
                                  !.name = roleName, !.before = getUserRoles(userId),
                                  !.ret = out.ret, !.saved = out.save]
        /\ UNCHANGED <<permRows, roleRows>>

\* removeOutcome keeping the named role: filter with === in place of !==
removeOutcomeKeepNamed(userId, roleName) ==
    IF ~UserExists(userId)
    THEN [ret |-> FALSE, save |-> FALSE, role |-> <<>>]
    ELSE LET initialLength == Len(LoadedRoles(userId))
             role == SelectSeq(LoadedRoles(userId), LAMBDA r : r = roleName)
         IN  IF Len(role) < initialLength
             THEN [ret |-> TRUE, save |-> TRUE, role |-> role]
             ELSE [ret |-> FALSE, save |-> FALSE, role |-> role]

\* removeOutcome saving before it compares the lengths
removeOutcomeSaveFirst(userId, roleName) ==
    IF ~UserExists(userId)
    THEN [ret |-> FALSE, save |-> FALSE, role |-> <<>>]
    ELSE LET initialLength == Len(LoadedRoles(userId))
             role == SelectSeq(LoadedRoles(userId), LAMBDA r : r # roleName)
         IN  [ret |-> Len(role) < initialLength, save |-> TRUE, role |-> role]

\* what removeRoleFromUser returns, whether it saves, and the user.role it saves
removeOutcome(userId, roleName) ==
    IF ~UserExists(userId)
    THEN [ret |-> FALSE, save |-> FALSE, role |-> <<>>]
    ELSE LET initialLength == Len(LoadedRoles(userId))
             role == SelectSeq(LoadedRoles(userId), LAMBDA r : r # roleName)
         IN  IF Len(role) < initialLength
             THEN [ret |-> TRUE, save |-> TRUE, role |-> role]
             ELSE [ret |-> FALSE, save |-> FALSE, role |-> role]

removeRoleFromUser(userId, roleName) ==
    LET out == removeOutcome(userId, roleName)
    IN  /\ Idle
        /\ UNCHANGED <<prev, accounts, inflight>>
        /\ userRows' = IF out.save THEN [userRows EXCEPT ![userId] = out.role] ELSE userRows
        /\ call' = [NoCall EXCEPT !.op = "removeRoleFromUser", !.userId = userId,
                                  !.name = roleName, !.before = getUserRoles(userId),
                                  !.ret = out.ret, !.saved = out.save]
        /\ UNCHANGED <<permRows, roleRows>>

\* ---------------------------------------------------------------- store readers

\* what a read-only operation leaves alone
Store == <<permRows, roleRows, userRows, prev, accounts, inflight>>

GetUserPermissions(userId) ==
    /\ Idle
    /\ call' = [NoCall EXCEPT !.op = "getUserPermissions", !.userId = userId,
                              !.list = getUserPermissions(userId)]
    /\ UNCHANGED Store

UserHasPermission(userId, permissionName) ==
    /\ Idle
    /\ call' = [NoCall EXCEPT !.op = "userHasPermission", !.userId = userId,
                              !.name = permissionName,
                              !.ret = userHasPermission(userId, permissionName)]
    /\ UNCHANGED Store

UserHasAnyPermission(userId, permissionNames) ==
    /\ Idle
    /\ call' = [NoCall EXCEPT !.op = "userHasAnyPermission", !.userId = userId,
                              !.names = permissionNames,
                              !.ret = userHasAnyPermission(userId, permissionNames)]
    /\ UNCHANGED Store

UserHasAllPermissions(userId, permissionNames) ==
    /\ Idle
    /\ call' = [NoCall EXCEPT !.op = "userHasAllPermissions", !.userId = userId,
                              !.names = permissionNames,
                              !.ret = userHasAllPermissions(userId, permissionNames)]
    /\ UNCHANGED Store

GetUserRoles(userId) ==
    /\ Idle
    /\ call' = [NoCall EXCEPT !.op = "getUserRoles", !.userId = userId,
                              !.list = getUserRoles(userId)]
    /\ UNCHANGED Store

\* userHasRole written with removeRoleFromUser's filter and save
UserHasRoleSaving(userId, roleName) ==
    /\ Idle
    /\ call' = [NoCall EXCEPT !.op = "userHasRole", !.userId = userId, !.name = roleName,
                              !.ret = userHasRole(userId, roleName)]
    /\ userRows' = IF userHasRole(userId, roleName)
                   THEN [userRows EXCEPT ![userId] = removeOutcome(userId, roleName).role]
                   ELSE userRows
    /\ UNCHANGED <<permRows, roleRows, prev, accounts, inflight>>

UserHasRole(userId, roleName) ==
    /\ Idle
    /\ call' = [NoCall EXCEPT !.op = "userHasRole", !.userId = userId, !.name = roleName,
                              !.ret = userHasRole(userId, roleName)]
    /\ UNCHANGED Store

UserHasAnyRole(userId, roleNames) ==
    /\ Idle
    /\ call' = [NoCall EXCEPT !.op = "userHasAnyRole", !.userId = userId,
                              !.names = roleNames,
                              !.ret = userHasAnyRole(userId, roleNames)]
    /\ UNCHANGED Store

GetRolePermissions(roleName) ==
    /\ Idle
    /\ call' = [NoCall EXCEPT !.op = "getRolePermissions", !.name = roleName,
                              !.list = getRolePermissions(roleName)]
    /\ UNCHANGED Store

UserCanAccessResource(userId, resourceOwnerId, requiredPermissions) ==
    /\ Idle
    /\ call' = [NoCall EXCEPT !.op = "userCanAccessResource", !.userId = userId,
                              !.ownerId = resourceOwnerId, !.names = requiredPermissions,
                              !.ret = userCanAccessResource(userId, resourceOwnerId,
                                                            requiredPermissions)]
    /\ UNCHANGED Store

GetRoleHierarchy(roleName) ==
    /\ Idle
    /\ call' = [NoCall EXCEPT !.op = "getRoleHierarchy", !.name = roleName,
                              !.level = getRoleHierarchy(roleName)]
    /\ UNCHANGED Store

UserHasMinimumRoleLevel(userId, minimumRole) ==
    /\ Idle
    /\ call' = [NoCall EXCEPT !.op = "userHasMinimumRoleLevel", !.userId = userId,
                              !.name = minimumRole,
                              !.ret = userHasMinimumRoleLevel(userId, minimumRole)]
    /\ UNCHANGED Store

\* the caller takes the result
Return ==
    /\ ~Idle
    /\ prev' = IF call.op \in Writers
               THEN [op |-> call.op, userId |-> call.userId, name |-> call.name,
                     ret |-> call.ret]
               ELSE prev
    /\ call' = NoCall
    /\ UNCHANGED <<permRows, roleRows, userRows, accounts, inflight>>

\* ---------------------------------------------------------------- store errors

\* the store calls an operation awaits, in the current store: the queries one
\* findOne (userCanAccessResource none for the owner, getRoleHierarchy none),
\* assignRoleToUser two findOne and removeRoleFromUser one, each a save more
\* when it saves
StoreCalls(op, userId, ownerId, name) ==
    CASE op = "getRoleHierarchy" -> 0
      [] op = "userCanAccessResource" -> IF userId = ownerId THEN 0 ELSE 1
      [] op = "assignRoleToUser" ->
            IF assignOutcome(userId, name).save THEN 3 ELSE 2
      [] op = "removeRoleFromUser" ->
            IF removeOutcome(userId, name).save THEN 2 ELSE 1
      [] OTHER -> 1

FailPoints == 1..3

\* RejectedCall catching the rejection and answering false
RejectedCallSwallowed(op, userId, ownerId, name, names, failAt) ==
    [NoCall EXCEPT !.op = op, !.userId = userId, !.ownerId = ownerId, !.name = name,
                   !.names = names, !.failedAt = failAt]

\* a call whose failAt-th await rejects: no try/catch, the rejection is the
\* operation's outcome and nothing after that await runs
RejectedCall(op, userId, ownerId, name, names, failAt) ==
    [NoCall EXCEPT !.op = op, !.userId = userId, !.ownerId = ownerId, !.name = name,
                   !.names = names, !.threw = TRUE, !.failedAt = failAt]

\* the store rejects the failAt-th call of an operation; a rejected save
\* writes nothing
StoreRejects(op, userId, ownerId, name, names, failAt) ==
    /\ Idle
    /\ failAt <= StoreCalls(op, userId, ownerId, name)
    /\ call' = RejectedCall(op, userId, ownerId, name, names, failAt)
    /\ UNCHANGED Store

\* ---------------------------------------------------------------- seeder command

\* process.argv[2]
CommandInputs == {"up", "seed", "down", "clean", "status", ""}

\* CommandRuns with the default case falling into the seeder
CommandRunsDefaultSeed(command) ==
    IF command \in {"down", "clean"} THEN "down" ELSE "seedRolesAndPermissions"

\* switch (command): the seeder operation the command awaits
CommandRuns(command) ==
    IF command \in {"up", "seed"} THEN "seedRolesAndPermissions"
    ELSE IF command \in {"down", "clean"} THEN "down"
    ELSE "none"

\* the items seedRolesAndPermissions works through, each with its awaited
\* store calls: the permissions, the roles, the sample users, and the roles
\* again for the summary
SeedItems == Len(CatalogNames) + Len(rolesData) + Len(usersData) + Len(rolesData)

\* the items an operation works through: down() its three deletes
CommandItems(ran) ==
    IF ran = "seedRolesAndPermissions" THEN SeedItems
    ELSE IF ran = "down" THEN Cardinality({"users", "roles", "permissions"})
    ELSE 0

\* of a loop over len items that starts after skip items, how many are done
\* when n items are done in all
Handled(n, skip, len) ==
    IF n <= skip THEN 0 ELSE IF n - skip >= len THEN len ELSE n - skip

\* the tables seedRolesAndPermissions leaves when the store rejects a call
\* made for item failAt (0: no call is rejected): the items before it are done
seedAttempt(failAt) ==
    LET n == IF failAt = 0 THEN SeedItems ELSE failAt - 1
        permsDone == {CatalogNames[i] : i \in 1..Handled(n, 0, Len(CatalogNames))}
        rolesDone == {rolesData[i] :
                         i \in 1..Handled(n, Len(CatalogNames), Len(rolesData))}
        usersDone == {usersData[i].email :
                         i \in 1..Handled(n, Len(CatalogNames) + Len(rolesData),
                                          Len(usersData))}
    IN  [perms |-> SeededPermissions(permRows, permsDone),
         roles |-> SeededRoles(roleRows, rolesDone),
         users |-> SeededUsers(userRows, usersDone),
         accs |-> SeededAccounts(accounts, usersDone)]

\* the tables down() leaves when the store rejects delete number failAt
\* (0: none): userRepository.delete, roleRepository.delete and
\* permissionRepository.delete are awaited one after the other, each its own
\* statement
downAttempt(failAt) ==
    LET n == IF failAt = 0 THEN CommandItems("down") ELSE failAt - 1
    IN  [users |-> IF n >= 1 THEN [u \in {} |-> <<>>] ELSE userRows,
         accs |-> IF n >= 1 THEN [u \in {} |-> [isActive |-> FALSE, password |-> <<>>]]
                  ELSE accounts,
         roles |-> IF n >= 2 THEN [r \in {} |-> {}] ELSE roleRows,
         perms |-> IF n >= 3 THEN {} ELSE permRows]

CmdFailPoints ==
    {0, 1, 2, 3, Len(CatalogNames) + 1, Len(CatalogNames) + 2,
     Len(CatalogNames) + Len(rolesData) + 1, Len(CatalogNames) + Len(rolesData) + 2,
     SeedItems}

\* one run of the command: connect, switch on the command, and close the
\* connection in the finally block unless process.exit ended the run before
runSeeder(command, connectOk, failAt, closeOk) ==
    LET ran == IF connectOk THEN CommandRuns(command) ELSE "none"
        out == IF ran = "seedRolesAndPermissions" THEN seedAttempt(failAt)
               ELSE IF ran = "down" THEN downAttempt(failAt)
               ELSE [perms |-> permRows, roles |-> roleRows, users |-> userRows,
                     accs |-> accounts]
        \* process.exit(1) in the catch block or in the default case
        exited == ~connectOk \/ ran = "none" \/ failAt # 0
        \* a rejected destroy() is an unhandled rejection: process.exit(1)
        code == IF exited \/ ~closeOk THEN 1 ELSE 0
    IN  /\ Idle
        /\ failAt <= CommandItems(ran)
        /\ UNCHANGED <<prev, inflight>>
        /\ accounts' = out.accs
        /\ permRows' = out.perms
        /\ roleRows' = out.roles
        /\ userRows' = out.users
        /\ call' = [NoCall EXCEPT !.op = "runSeeder", !.name = command,
                                  !.connected = connectOk, !.ran = ran,
                                  !.failedAt = failAt,
                                  !.closed = ~exited /\ closeOk, !.exit = code]

\* ---------------------------------------------------------------- concurrent requests

\* the requests issued concurrently
ConcRequests ==
    [op : {"assignRoleToUser", "removeRoleFromUser"},
     userId : {"guest@trello.com", "u1"}, name : {"admin", "guest"}]
    \cup [op : {"getUserRoles"}, userId : {"guest@trello.com", "u1"}, name : {""}]

Quiet == \A c \in Callers : inflight.of[c].pc = "idle"

AllDone == \A c \in Callers : inflight.of[c].pc = "done"

\* both callers invoke an operation before either has read anything
Issue(reqA, reqB) ==
    /\ Idle
    /\ Quiet
    /\ inflight' =
          [base |-> userRows,
           of |-> [c \in Callers |->
                     LET req == IF c = "a" THEN reqA ELSE reqB
                     IN  [NoRequest EXCEPT !.op = req.op, !.userId = req.userId,
                                           !.name = req.name, !.pc = "called"]]]
    /\ UNCHANGED <<permRows, roleRows, userRows, call, prev, accounts>>

\* await userRepository.findOne({ where: { id: userId }, relations: ['role'] })
\* and what follows it up to the next await
LoadUser(c) ==
    LET r == inflight.of[c]
        found == UserExists(r.userId)
        loaded == IF found THEN LoadedRoles(r.userId) ELSE <<>>
        read == [r EXCEPT !.found = found, !.loaded = loaded]
    IN  /\ r.pc = "called"
        /\ inflight' =
              [inflight EXCEPT !.of[c] =
                  CASE r.op = "getUserRoles" ->
                          [read EXCEPT !.pc = "done", !.list = loaded]
                    [] r.op = "assignRoleToUser" -> [read EXCEPT !.pc = "userLoaded"]
                    [] r.op = "removeRoleFromUser" ->
                          IF found /\ (\E i \in 1..Len(loaded) : loaded[i] = r.name)
                          THEN [read EXCEPT !.pc = "saving"]
                          ELSE [read EXCEPT !.pc = "done", !.ret = FALSE]]
        /\ UNCHANGED <<permRows, roleRows, userRows, call, prev, accounts>>

\* await roleRepository.findOne({ where: { name: roleName } }), the
\* !user || !role test and the hasRole test
LoadRole(c) ==
    LET r == inflight.of[c]
        roleFound == RoleExists(r.name)
        read == [r EXCEPT !.roleFound = roleFound]
    IN  /\ r.pc = "userLoaded"
        /\ inflight' =
              [inflight EXCEPT !.of[c] =
                  IF ~r.found \/ ~roleFound
                  THEN [read EXCEPT !.pc = "done", !.ret = FALSE]
                  ELSE IF (\E i \in 1..Len(r.loaded) : r.loaded[i] = r.name)
                  THEN [read EXCEPT !.pc = "done", !.ret = TRUE]
                  ELSE [read EXCEPT !.pc = "saving"]]
        /\ UNCHANGED <<permRows, roleRows, userRows, call, prev, accounts>>

\* SavedRoles changing the role list the store has at the save
SavedRolesMerged(r) ==
    IF r.op = "assignRoleToUser"
    THEN IF (\E i \in 1..Len(userRows[r.userId]) : userRows[r.userId][i] = r.name)
         THEN userRows[r.userId]
         ELSE Append(userRows[r.userId], r.name)
    ELSE SelectSeq(userRows[r.userId], LAMBDA n : n # r.name)

\* the user.role a request saves: the list it loaded with the role pushed
\* (user.role.push(role)) or filtered out
SavedRoles(r) ==
    IF r.op = "assignRoleToUser"
    THEN Append(r.loaded, r.name)
    ELSE SelectSeq(r.loaded, LAMBDA n : n # r.name)

\* SaveUser writing the role list to every user row
SaveUserEveryRow(rows, r) == [u \in DOMAIN rows |-> SavedRoles(r)]

\* userRepository.save(user): the row of the loaded user gets the entity's
\* role list
SaveUser(rows, r) == [rows EXCEPT ![r.userId] = SavedRoles(r)]

\* await userRepository.save(user); return true
Save(c) ==
    LET r == inflight.of[c]
    IN  /\ r.pc = "saving"
        /\ userRows' = SaveUser(userRows, r)
        /\ inflight' = [inflight EXCEPT !.of[c] =
                            [r EXCEPT !.pc = "done", !.ret = TRUE, !.saved = TRUE]]
        /\ UNCHANGED <<permRows, roleRows, call, prev, accounts>>

\* both callers have their results
Collect ==
    /\ AllDone
    /\ inflight' = NoFlight
    /\ UNCHANGED <<permRows, roleRows, userRows, call, prev, accounts>>

\* ---------------------------------------------------------------- authentication

\* a user is known to the store under one key, which stands for its id and
\* for its e-mail address
AuthIds == UserIdInputs

PasswordInputs == {SamplePassword("guest@trello.com"), RegisterPassword, "wrong"}

\* what verifyJwt(token) gives: a payload object with a code field, a payload
\* object without one, a string payload, or a thrown error
TokenPayloads ==
    [kind : {"code"}, code : AuthIds]
    \cup [kind : {"object", "string", "throws"}, code : {""}]

\* bcrypt.compare(loginData.password, user.password)
Compare(password, hashed) == hashed = Hash(password)

\* the ServiceResponse of a call, with the calls the service made for it
Response(status, message, success) ==
    [status |-> status, message |-> message, success |-> success, token |-> FALSE,
     compared |-> FALSE, lookups |-> 0, updates |-> 0, activate |-> FALSE]

\* loginResponse comparing the password before it looks at isActive
loginResponseCompareFirst(accs, email, password, failAt) ==
    IF failAt = 1
    THEN [Response(500, "Error logging in", FALSE) EXCEPT !.lookups = 1]
    ELSE IF email \notin DOMAIN accs
    THEN [Response(404, "User not found", FALSE) EXCEPT !.lookups = 1]
    ELSE IF ~Compare(password, accs[email].password)
    THEN [Response(401, "Invalid password", FALSE) EXCEPT !.lookups = 1,
                                                          !.compared = TRUE]
    ELSE IF ~accs[email].isActive
    THEN [Response(401, "User is not activated", FALSE) EXCEPT !.lookups = 1,
                                                               !.compared = TRUE]
    ELSE [Response(200, "Login successful", TRUE) EXCEPT !.lookups = 1,
                                                        !.compared = TRUE,
                                                        !.token = TRUE]

\* AuthService.login over the users table accs; failAt = 1 when
\* findByEmailAsync rejects, 0 when no store call does
loginResponse(accs, email, password, failAt) ==
    IF failAt = 1
    THEN [Response(500, "Error logging in", FALSE) EXCEPT !.lookups = 1]
    ELSE IF email \notin DOMAIN accs
    THEN [Response(404, "User not found", FALSE) EXCEPT !.lookups = 1]
    ELSE IF ~accs[email].isActive
    THEN [Response(401, "User is not activated", FALSE) EXCEPT !.lookups = 1]
    ELSE IF ~Compare(password, accs[email].password)
    THEN [Response(401, "Invalid password", FALSE) EXCEPT !.lookups = 1,
                                                          !.compared = TRUE]
    ELSE [Response(200, "Login successful", TRUE) EXCEPT !.lookups = 1,
                                                        !.compared = TRUE,
                                                        !.token = TRUE]

login(email, password, failAt) ==
    LET out == loginResponse(accounts, email, password, failAt)
    IN  /\ Idle
        /\ call' = [NoCall EXCEPT !.op = "login", !.userId = email,
                                  !.password = password, !.failedAt = failAt,
                                  !.status = out.status, !.message = out.message,
                                  !.success = out.success, !.token = out.token,
                                  !.compared = out.compared, !.lookups = out.lookups]
        /\ UNCHANGED Store

\* the store calls verifyEmail makes for a decoded payload: findByIdAsync,
\* then, for an inactive user, the update and the findOneBy of updateUserAsync
verifyEmailCalls(accs, decoded) ==
    IF decoded.kind # "code" THEN 0
    ELSE IF decoded.code \notin DOMAIN accs \/ accs[decoded.code].isActive THEN 1
    ELSE 3

\* AuthService.verifyEmail over the users table accs; failAt is the store call
\* that rejects (0: none).  activate: repo.update has set isActive
verifyEmailResponse(accs, decoded, failAt) ==
    IF decoded.kind = "throws"
    THEN Response(500, "Error verifying email", FALSE)
    ELSE IF decoded.kind # "code"
    THEN Response(400, "Invalid token format", FALSE)
    ELSE IF failAt = 1
    THEN [Response(500, "Error verifying email", FALSE) EXCEPT !.lookups = 1]
    ELSE IF decoded.code \notin DOMAIN accs
    THEN [Response(404, "User not found", FALSE) EXCEPT !.lookups = 1]
    ELSE IF accs[decoded.code].isActive
    THEN [Response(200, "Email already verified", TRUE) EXCEPT !.lookups = 1]
    ELSE IF failAt = 2
    THEN [Response(500, "Error verifying email", FALSE) EXCEPT !.lookups = 1,
                                                               !.updates = 1]
    ELSE IF failAt = 3
    THEN [Response(500, "Error verifying email", FALSE) EXCEPT !.lookups = 1,
                                                               !.updates = 1,
                                                               !.activate = TRUE]
    ELSE [Response(200, "Email verified successfully", TRUE) EXCEPT !.lookups = 1,
                                                                   !.updates = 1,
                                                                   !.activate = TRUE]

verifyEmail(decoded, failAt) ==
    LET out == verifyEmailResponse(accounts, decoded, failAt)
    IN  /\ Idle
        /\ failAt <= verifyEmailCalls(accounts, decoded)
        /\ accounts' = IF out.activate
                       THEN [accounts EXCEPT ![decoded.code].isActive = TRUE]
                       ELSE accounts
        /\ call' = [NoCall EXCEPT !.op = "verifyEmail", !.userId = decoded.code,
                                  !.name = decoded.kind, !.failedAt = failAt,
                                  !.status = out.status, !.message = out.message,
                                  !.success = out.success, !.lookups = out.lookups,
                                  !.updates = out.updates]
        /\ UNCHANGED <<permRows, roleRows, userRows, prev, inflight>>

\* ---------------------------------------------------------------- specification

Next ==
    \/ seedRolesAndPermissions
    \/ down
    \/ \E userId \in RegisterIds : createUser(userId)
    \/ \E userId \in UserIdInputs, roleName \in RoleNameInputs :
          assignRoleToUser(userId, roleName)
    \/ \E userId \in UserIdInputs, roleName \in RoleNameInputs :
          removeRoleFromUser(userId, roleName)
    \/ \E userId \in UserIdInputs : GetUserPermissions(userId)
    \/ \E userId \in UserIdInputs, permissionName \in PermissionInputs :
          UserHasPermission(userId, permissionName)
    \/ \E userId \in UserIdInputs, permissionNames \in PermissionLists :
          UserHasAnyPermission(userId, permissionNames)
    \/ \E userId \in UserIdInputs, permissionNames \in PermissionLists :
          UserHasAllPermissions(userId, permissionNames)
    \/ \E userId \in UserIdInputs : GetUserRoles(userId)
    \/ \E userId \in UserIdInputs, roleName \in RoleNameInputs :
          UserHasRole(userId, roleName)
    \/ \E userId \in UserIdInputs, roleNames \in RoleLists :
          UserHasAnyRole(userId, roleNames)
    \/ \E roleName \in RoleNameInputs : GetRolePermissions(roleName)
    \/ \E userId \in UserIdInputs, ownerId \in OwnerIdInputs,
          permissionNames \in PermissionLists :
          UserCanAccessResource(userId, ownerId, permissionNames)
    \/ \E roleName \in HierarchyInputs : GetRoleHierarchy(roleName)
    \/ \E userId \in UserIdInputs, minimumRole \in HierarchyInputs :
          UserHasMinimumRoleLevel(userId, minimumRole)
    \/ Return

Spec == Init /\ [][Next]_vars

\* the operations that write, and every engine operation with one of its
\* store calls rejected
NextFail ==
    \/ seedRolesAndPermissions
    \/ down
    \/ \E userId \in RegisterIds : createUser(userId)
    \/ \E userId \in UserIdInputs, roleName \in RoleNameInputs :
          assignRoleToUser(userId, roleName)
    \/ \E userId \in UserIdInputs, roleName \in RoleNameInputs :
          removeRoleFromUser(userId, roleName)
    \/ Return
    \/ \E userId \in UserIdInputs, failAt \in FailPoints :
          StoreRejects("getUserPermissions", userId, "", "", <<>>, failAt)
    \/ \E userId \in UserIdInputs, permissionName \in PermissionInputs,
          failAt \in FailPoints :
          StoreRejects("userHasPermission", userId, "", permissionName, <<>>, failAt)
    \/ \E userId \in UserIdInputs, permissionNames \in PermissionLists,
          failAt \in FailPoints :
          StoreRejects("userHasAnyPermission", userId, "", "", permissionNames, failAt)
    \/ \E userId \in UserIdInputs, permissionNames \in PermissionLists,
          failAt \in FailPoints :
          StoreRejects("userHasAllPermissions", userId, "", "", permissionNames, failAt)
    \/ \E userId \in UserIdInputs, failAt \in FailPoints :
          StoreRejects("getUserRoles", userId, "", "", <<>>, failAt)
    \/ \E userId \in UserIdInputs, roleName \in RoleNameInputs, failAt \in FailPoints :
          StoreRejects("userHasRole", userId, "", roleName, <<>>, failAt)
    \/ \E userId \in UserIdInputs, roleNames \in RoleLists, failAt \in FailPoints :
          StoreRejects("userHasAnyRole", userId, "", "", roleNames, failAt)
    \/ \E roleName \in RoleNameInputs, failAt \in FailPoints :
          StoreRejects("getRolePermissions", "", "", roleName, <<>>, failAt)
    \/ \E userId \in UserIdInputs, ownerId \in OwnerIdInputs,
          permissionNames \in PermissionLists, failAt \in FailPoints :
          StoreRejects("userCanAccessResource", userId, ownerId, "", permissionNames,
                       failAt)
    \/ \E userId \in UserIdInputs, minimumRole \in HierarchyInputs,
          failAt \in FailPoints :
          StoreRejects("userHasMinimumRoleLevel", userId, "", minimumRole, <<>>, failAt)
    \/ \E userId \in UserIdInputs, roleName \in RoleNameInputs, failAt \in FailPoints :
          StoreRejects("assignRoleToUser", userId, "", roleName, <<>>, failAt)
    \/ \E userId \in UserIdInputs, roleName \in RoleNameInputs, failAt \in FailPoints :
          StoreRejects("removeRoleFromUser", userId, "", roleName, <<>>, failAt)

SpecFail == Init /\ [][NextFail]_vars

\* runs of the seeder command over a store that may reject any call
NextCmd ==
    \/ \E command \in CommandInputs, connectOk \in BOOLEAN, failAt \in CmdFailPoints,
          closeOk \in BOOLEAN : runSeeder(command, connectOk, failAt, closeOk)
    \/ \E userId \in RegisterIds : createUser(userId)
    \/ Return

SpecCmd == Init /\ [][NextCmd]_vars

\* two requests at a time, their store calls interleaved; seeding and
\* registration happen between them
NextConc ==
    \/ Quiet /\ seedRolesAndPermissions
    \/ Quiet /\ \E userId \in RegisterIds : createUser(userId)
    \/ Return
    \/ \E reqA, reqB \in ConcRequests : Issue(reqA, reqB)
    \/ \E c \in Callers : LoadUser(c)
    \/ \E c \in Callers : LoadRole(c)
    \/ \E c \in Callers : Save(c)
    \/ Collect

SpecConc == Init /\ [][NextConc]_vars

\* registration, e-mail verification and login over a store that may reject
\* a call
NextAuth ==
    \/ seedRolesAndPermissions
    \/ \E userId \in RegisterIds : createUser(userId)
    \/ \E decoded \in TokenPayloads, failAt \in {0} \cup FailPoints :
          verifyEmail(decoded, failAt)
    \/ \E email \in AuthIds, password \in PasswordInputs, failAt \in 0..1 :
          login(email, password, failAt)
    \/ Return

SpecAuth == Init /\ [][NextAuth]_vars

\* ---------------------------------------------------------------- properties

\* the role names a user holds in the store, none for an unknown user id
Held(userId) == IF UserExists(userId) THEN Range(userRows[userId]) ELSE {}

\* C1: getUserPermissions(U) returns exactly the union of the permission
\* names of the roles U holds, each name once.
C1_EffectivePermissionsAreUnion ==
    call.op = "getUserPermissions" =>
        /\ Range(call.list) = UNION {roleRows[r] : r \in Held(call.userId)}
        /\ Len(call.list) = Cardinality(Range(call.list))

\* a user holding two roles that share a permission and differ in another
C1_Witness ==
    /\ call.op = "getUserPermissions"
    /\ \E r1, r2 \in Held(call.userId) :
          /\ roleRows[r1] \cap roleRows[r2] # {}
          /\ roleRows[r1] \ roleRows[r2] # {}
          /\ roleRows[r2] \ roleRows[r1] # {}

\* C2: userCanAccessResource(U, U, P) is true for every P and every U.
C2_OwnerAlwaysAllowed ==
    (call.op = "userCanAccessResource" /\ call.userId = call.ownerId) => call.ret = TRUE

\* owners without any of the permissions asked for: an unknown id with the
\* empty list, and an existing user with a permission it does not hold
C2_Witness ==
    /\ call.op = "userCanAccessResource"
    /\ call.userId = call.ownerId
    /\ call.ret
    /\ \/ ~UserExists(call.userId) /\ call.names = <<>>
       \/ UserExists(call.userId) /\ call.names # <<>>
          /\ ~userHasAnyPermission(call.userId, call.names)

\* C3: for an owner id other than U, userCanAccessResource(U, V, P) equals
\* userHasAnyPermission(U, P) in the same store state; a non-owner is denied
\* for the empty P.
C3_NonOwnerFallsBackToAny ==
    (call.op = "userCanAccessResource" /\ call.userId # call.ownerId) =>
        /\ call.ret = userHasAnyPermission(call.userId, call.names)
        /\ call.names = <<>> => call.ret = FALSE

\* a non-owner holding roles asks with the empty list and is denied
C3_Witness ==
    /\ call.op = "userCanAccessResource"
    /\ call.userId # call.ownerId
    /\ Held(call.userId) # {}
    /\ call.names = <<>>
    /\ ~call.ret

\* C4: userHasAnyPermission(U, P) is true iff getUserPermissions(U) and P
\* intersect; it is false for the empty P.
C4_AnyIffIntersection ==
    call.op = "userHasAnyPermission" =>
        /\ call.ret <=> (Range(getUserPermissions(call.userId)) \cap Range(call.names) # {})
        /\ call.names = <<>> => ~call.ret

\* true for a list with one permission held and one not held
C4_Witness ==
    /\ call.op = "userHasAnyPermission"
    /\ call.ret
    /\ Range(call.names) \ Range(getUserPermissions(call.userId)) # {}

\* C5: userHasAllPermissions(U, P) is true iff every element of P is in
\* getUserPermissions(U); it is true for the empty P, also for a user without
\* roles and for an unknown user id.
C5_AllIffSubset ==
    call.op = "userHasAllPermissions" =>
        /\ call.ret <=> (Range(call.names) \subseteq Range(getUserPermissions(call.userId)))
        /\ call.names = <<>> => call.ret

\* the empty list asked for an unknown user id
C5_Witness ==
    /\ call.op = "userHasAllPermissions"
    /\ ~UserExists(call.userId)
    /\ call.names = <<>>
    /\ call.ret

\* C6: userHasMinimumRoleLevel(U, m) is true iff U holds a role r with
\* getRoleHierarchy(r) >= getRoleHierarchy(m); for m = 'board_member' iff U
\* holds a role of level 30 or more.
C6_MinimumLevelIffSomeRole ==
    call.op = "userHasMinimumRoleLevel" =>
        /\ call.ret <=> \E r \in Held(call.userId) :
                           JsGreaterEq(getRoleHierarchy(r), getRoleHierarchy(call.name))
        /\ call.name = "board_member" =>
              (call.ret <=> \E r \in Held(call.userId) :
                               r \in DOMAIN hierarchy /\ hierarchy[r] >= 30)

\* 'board_member' asked of a user holding one role below and one role at or
\* above level 30
C6_Witness ==
    /\ call.op = "userHasMinimumRoleLevel"
    /\ call.name = "board_member"
    /\ call.ret
    /\ \E r1, r2 \in Held(call.userId) : hierarchy[r1] < 30 /\ hierarchy[r2] >= 30

\* C7: for a user holding no role, or an unknown user id, getUserPermissions
\* returns the empty list and userHasMinimumRoleLevel returns false for every
\* minimum role name.
C7_NoRolesNoPrivilege ==
    Held(call.userId) = {} =>
        /\ call.op = "getUserPermissions" => call.list = <<>>
        /\ call.op = "userHasMinimumRoleLevel" => call.ret = FALSE

\* an existing user without roles asked for a minimum role absent from the table
C7_Witness ==
    /\ call.op = "userHasMinimumRoleLevel"
    /\ UserExists(call.userId)
    /\ userRows[call.userId] = <<>>
    /\ call.name \notin DOMAIN hierarchy
    /\ ~call.ret

\* C8: getRoleHierarchy returns the table level for the eight role names and
\* the integer 0 for every other name; the eight levels strictly decrease in
\* table order.
C8_HierarchyLevels ==
    /\ call.op = "getRoleHierarchy" =>
          call.level = JsNumber(CASE call.name = "admin" -> 100
                                  [] call.name = "workspace_admin" -> 80
                                  [] call.name = "board_owner" -> 60
                                  [] call.name = "board_admin" -> 50
                                  [] call.name = "board_member" -> 30
                                  [] call.name = "board_observer" -> 20
                                  [] call.name = "user" -> 10
                                  [] call.name = "guest" -> 5
                                  [] OTHER -> 0)
    /\ \A i, j \in 1..Len(rolesData) :
          i < j => getRoleHierarchy(rolesData[i]).num > getRoleHierarchy(rolesData[j]).num

\* C9: assignRoleToUser(U, r) called twice in a row for an existing user and
\* role returns true both times; the second call leaves U's roles as the first
\* left them, with r held once.
C9_AssignTwiceIsNoOp ==
    ( /\ call.op = "assignRoleToUser"
      /\ prev.op = "assignRoleToUser"
      /\ prev.userId = call.userId
      /\ prev.name = call.name
      /\ UserExists(call.userId)
      /\ RoleExists(call.name) ) =>
        /\ prev.ret
        /\ call.ret
        /\ userRows[call.userId] = call.before
        /\ Count(call.name, userRows[call.userId]) = 1

\* the second of two calls, on a user holding r and another role
C9_Witness ==
    /\ call.op = "assignRoleToUser"
    /\ prev.op = "assignRoleToUser"
    /\ prev.userId = call.userId
    /\ prev.name = call.name
    /\ call.ret
    /\ Len(userRows[call.userId]) >= 2

\* C10: assignRoleToUser(U, r) returns false and leaves every user's roles
\* unchanged when U or r does not exist, and returns true otherwise.
C10_AssignFailsOnlyOnMissing ==
    [][call'.op = "assignRoleToUser" =>
          /\ call'.ret <=> (UserExists(call'.userId) /\ RoleExists(call'.name))
          /\ ~call'.ret => userRows' = userRows]_vars

\* an existing user asked to take a role name without a row
C10_Witness ==
    /\ call.op = "assignRoleToUser"
    /\ UserExists(call.userId)
    /\ ~RoleExists(call.name)
    /\ DOMAIN roleRows # {}
    /\ ~call.ret

\* C11: removeRoleFromUser(U, r) returns true iff U exists and held r just
\* before the call; after a true result U no longer holds r and holds every
\* other role it held.
C11_RemoveTrueIffHeld ==
    [][call'.op = "removeRoleFromUser" =>
          /\ call'.ret <=> (/\ UserExists(call'.userId)
                            /\ call'.name \in Range(userRows[call'.userId]))
          /\ call'.ret =>
                /\ call'.name \notin Range(userRows'[call'.userId])
                /\ Range(userRows'[call'.userId])
                      = Range(userRows[call'.userId]) \ {call'.name}]_vars

\* a role removed from a user who keeps another one
C11_Witness ==
    /\ call.op = "removeRoleFromUser"
    /\ call.ret
    /\ Len(call.before) >= 2
    /\ userRows[call.userId] # <<>>
    /\ call.name \notin Range(userRows[call.userId])

\* C12: removeRoleFromUser(U, r) for a role U does not hold returns false,
\* writes nothing and leaves every user's roles unchanged.
C12_RemoveNotHeldIsNoOp ==
    [][( /\ call'.op = "removeRoleFromUser"
         /\ \/ ~UserExists(call'.userId)
            \/ call'.name \notin Range(userRows[call'.userId]) ) =>
          /\ ~call'.ret
          /\ ~call'.saved
          /\ UNCHANGED <<permRows, roleRows, userRows>>]_vars

\* an existing role asked to be removed from a user holding only other roles
C12_Witness ==
    /\ call.op = "removeRoleFromUser"
    /\ UserExists(call.userId)
    /\ userRows[call.userId] # <<>>
    /\ RoleExists(call.name)
    /\ call.name \notin Range(call.before)
    /\ ~call.ret

\* the read-only operations of the engine
QueryOps ==
    {"getUserPermissions", "userHasPermission", "userHasAnyPermission",
     "userHasAllPermissions", "getUserRoles", "userHasRole", "userHasAnyRole",
     "getRolePermissions", "userCanAccessResource", "getRoleHierarchy",
     "userHasMinimumRoleLevel"}

\* C13: every query operation leaves users, roles, permissions and their
\* associations unchanged; of the engine's operations only assignRoleToUser
\* and removeRoleFromUser change them.
C13_QueriesAreReadOnly ==
    [][call'.op \in QueryOps => UNCHANGED <<permRows, roleRows, userRows>>]_vars

\* a role query answered true, on a user who still holds the role
C13_Witness ==
    /\ call.op = "userHasRole"
    /\ call.ret
    /\ call.name \in Held(call.userId)

\* C16: userHasRole(U, r) is true iff r is in getUserRoles(U);
\* userHasAnyRole(U, R) is true iff some element of R is in getUserRoles(U),
\* and false for the empty R.
C16_RoleMembership ==
    /\ call.op = "userHasRole" =>
          (call.ret <=> call.name \in Range(getUserRoles(call.userId)))
    /\ call.op = "userHasAnyRole" =>
          /\ call.ret <=> (Range(call.names) \cap Range(getUserRoles(call.userId)) # {})
          /\ call.names = <<>> => ~call.ret

\* true for a list naming one role held and one not held
C16_Witness ==
    /\ call.op = "userHasAnyRole"
    /\ call.ret
    /\ Range(call.names) \ Range(getUserRoles(call.userId)) # {}

\* C17: seedRolesAndPermissions is idempotent: a second run, with no other
\* write in between, leaves permissions, roles, role-permission links and
\* sample users as the first run left them, with a row for every catalog
\* permission name and every catalog role name.
C17_SeedTwiceIsNoOp ==
    [][( /\ call'.op = "seedRolesAndPermissions"
         /\ prev.op = "seedRolesAndPermissions" ) =>
          /\ UNCHANGED <<permRows, roleRows, userRows>>
          /\ Range(CatalogNames) \subseteq permRows'
          /\ Range(rolesData) \subseteq DOMAIN roleRows']_vars

\* a second run in a store that also holds a registered user
C17_Witness ==
    /\ call.op = "seedRolesAndPermissions"
    /\ prev.op = "seedRolesAndPermissions"
    /\ DOMAIN userRows # SampleEmails

\* C18: after seedRolesAndPermissions every catalog role has exactly the
\* permission set the seed defines for it, whatever it had before the run.
C18_SeedOverwritesRolePermissions ==
    [][call'.op = "seedRolesAndPermissions" =>
          \A r \in Range(rolesData) :
             /\ r \in DOMAIN roleRows'
             /\ roleRows'[r] = SeedPermissions(r)]_vars

\* a run in which a catalog role loses a permission: the first seed over the
\* legacy rows, after which guest no longer holds boards:delete
C18_Witness ==
    /\ call.op = "seedRolesAndPermissions"
    /\ prev.op = "none"
    /\ LegacyPermissions \subseteq permRows
    /\ "boards:delete" \in LegacyRoles["guest"]
    /\ "boards:delete" \notin roleRows["guest"]

BooleanQueryOps ==
    {"userHasPermission", "userHasAnyPermission", "userHasAllPermissions",
     "userHasRole", "userHasAnyRole", "userCanAccessResource",
     "userHasMinimumRoleLevel"}

\* C14 as stated: the engine raises no error for not-found or no-privilege
\* conditions; for a user that is unknown or holds no role the set-valued
\* queries return the empty collection and the boolean operations return
\* false, and getRolePermissions of an unknown role is empty.
C14_UnknownGivesEmptyOrFalse ==
    /\ ~call.threw
    /\ (~call.threw /\ Held(call.userId) = {}) =>
          /\ call.op \in {"getUserPermissions", "getUserRoles"} => call.list = <<>>
          /\ call.op \in BooleanQueryOps => ~call.ret
    /\ (~call.threw /\ call.op = "removeRoleFromUser" /\ call.before = <<>>) =>
          ~call.ret
    /\ (~call.threw /\ call.op = "getRolePermissions" /\ ~RoleExists(call.name)) =>
          call.list = <<>>

\* C14 amended: as C14, but for a user that is unknown or holds no role
\* userHasAllPermissions is true exactly for the empty list and
\* userCanAccessResource is true exactly when the user is the owner; every
\* result for such a user is fixed by the arguments alone, so an unknown user
\* and an existing user with no roles get the same results. An unknown
\* permission or role name is held by nobody, and assignRoleToUser is false
\* for an unknown user or role.
C14_UnknownGivesArgumentFixedAnswers ==
    /\ ~call.threw
    /\ (~call.threw /\ Held(call.userId) = {}) =>
          /\ call.op \in {"getUserPermissions", "getUserRoles"} => call.list = <<>>
          /\ call.op \in BooleanQueryOps
                            \ {"userHasAllPermissions", "userCanAccessResource"} =>
                ~call.ret
          /\ call.op = "userHasAllPermissions" => (call.ret <=> call.names = <<>>)
          /\ call.op = "userCanAccessResource" =>
                (call.ret <=> call.userId = call.ownerId)
    /\ (~call.threw /\ call.op = "removeRoleFromUser" /\ call.before = <<>>) =>
          ~call.ret
    /\ (~call.threw /\ call.op = "getRolePermissions" /\ ~RoleExists(call.name)) =>
          call.list = <<>>
    /\ (~call.threw /\ call.op = "userHasPermission" /\ call.name \notin permRows) =>
          ~call.ret
    /\ ( /\ ~call.threw
         /\ call.op \in {"userHasRole", "removeRoleFromUser"}
         /\ ~RoleExists(call.name) ) => ~call.ret
    /\ ( /\ ~call.threw
         /\ call.op = "assignRoleToUser"
         /\ ~UserExists(call.userId) \/ ~RoleExists(call.name) ) => ~call.ret

\* an existing user with no roles asks, in a seeded store, for access to
\* another user's resource and for the permissions of an unknown role
C14_Witness ==
    /\ "admin" \in DOMAIN roleRows
    /\ UserExists("u1")
    /\ Held("u1") = {}
    /\ ~call.threw
    /\ \/ /\ call.op = "userCanAccessResource"
          /\ call.userId = "u1"
          /\ call.ownerId = "ghost"
          /\ call.names # <<>>
          /\ ~call.ret
       \/ /\ call.op = "getRolePermissions"
          /\ call.name = "no_such_role"
          /\ call.list = <<>>

EngineOps == QueryOps \cup {"assignRoleToUser", "removeRoleFromUser"}

\* C15: when the store rejects a read or a save of an engine operation the
\* operation rejects too: it delivers no false or empty result, runs nothing
\* after the rejected call (no retry), and leaves the persisted role graph
\* as it was before the operation.
C15_StoreErrorsPropagate ==
    [][(call'.op \in EngineOps /\ call'.failedAt > 0) =>
          /\ call'.threw
          /\ ~call'.saved
          /\ UNCHANGED <<permRows, roleRows, userRows>>]_vars

\* the save of an assignment that would have added a role is rejected
C15_Witness ==
    /\ call.op = "assignRoleToUser"
    /\ call.threw
    /\ call.failedAt = 3
    /\ UserExists(call.userId)
    /\ RoleExists(call.name)
    /\ call.name \notin Held(call.userId)

\* C19: down() is all-or-nothing: after a teardown attempt, also one that a
\* storage failure interrupted between its deletes, either users, roles and
\* permissions are all deleted or none of the three tables has changed.
C19_DownAllOrNothing ==
    [][(call'.op = "runSeeder" /\ call'.ran = "down") =>
          \/ /\ DOMAIN userRows' = {}
             /\ DOMAIN roleRows' = {}
             /\ permRows' = {}
          \/ UNCHANGED <<permRows, roleRows, userRows>>]_vars

\* C20 as stated: the command runs seedRolesAndPermissions only for 'seed'
\* or 'up' and down() only for 'clean' or 'down', and only once connected; a
\* failed connection, a failure inside the operation and an unrecognised mode
\* end with a non-zero exit code, and a completed operation with exit code 0.
C20_CommandModesAndExitCodes ==
    call.op = "runSeeder" =>
        /\ call.ran = "seedRolesAndPermissions" <=>
              (call.connected /\ call.name \in {"seed", "up"})
        /\ call.ran = "down" <=> (call.connected /\ call.name \in {"clean", "down"})
        /\ ~call.connected => (call.ran = "none" /\ call.exit # 0)
        /\ call.failedAt # 0 => call.exit # 0
        /\ call.name \notin {"seed", "up", "clean", "down"} =>
              (call.ran = "none" /\ call.exit # 0)
        /\ (call.ran # "none" /\ call.failedAt = 0) => call.exit = 0

\* C20 amended: as C20, but a completed operation ends with exit code 0
\* exactly when the connection then closes without error; otherwise the
\* exit code is non-zero although the operation's writes are in the store.
C20_CommandModesAndExitCodesIfClosed ==
    call.op = "runSeeder" =>
        /\ call.ran = "seedRolesAndPermissions" <=>
              (call.connected /\ call.name \in {"seed", "up"})
        /\ call.ran = "down" <=> (call.connected /\ call.name \in {"clean", "down"})
        /\ ~call.connected => (call.ran = "none" /\ call.exit # 0)
        /\ call.failedAt # 0 => call.exit # 0
        /\ call.name \notin {"seed", "up", "clean", "down"} =>
              (call.ran = "none" /\ call.exit # 0)
        /\ (call.ran # "none" /\ call.failedAt = 0) => (call.exit = 0 <=> call.closed)
        /\ (call.ran = "seedRolesAndPermissions" /\ call.failedAt = 0) =>
              \A r \in Range(rolesData) :
                 r \in DOMAIN roleRows /\ roleRows[r] = SeedPermissions(r)

\* a seed run that completed over the legacy rows and closed the connection
C20_Witness ==
    /\ call.op = "runSeeder"
    /\ call.name = "seed"
    /\ call.ran = "seedRolesAndPermissions"
    /\ call.failedAt = 0
    /\ call.closed
    /\ call.exit = 0
    /\ "boards:archive" \in permRows
    /\ SampleEmails \subseteq DOMAIN userRows

\* C23: the engine keeps no cache: a query issued after an assignRoleToUser,
\* removeRoleFromUser or seed run has completed answers from the store as
\* that operation left it, so an assigned role is seen, a removed role is
\* not, and a sample user shows its seed role.
C23_QueriesSeeLastWrite ==
    ( /\ call.op \in QueryOps
      /\ prev.op \in {"assignRoleToUser", "removeRoleFromUser",
                      "seedRolesAndPermissions"} ) =>
        LET perms == UNION {roleRows[r] : r \in Held(call.userId)}
            same == call.userId = prev.userId /\ call.name = prev.name
        IN  /\ call.op = "getUserRoles" => Range(call.list) = Held(call.userId)
            /\ call.op = "getUserPermissions" => Range(call.list) = perms
            /\ call.op = "userHasRole" => (call.ret <=> call.name \in Held(call.userId))
            /\ call.op = "userHasPermission" => (call.ret <=> call.name \in perms)
            /\ ( /\ call.op = "userHasRole"
                 /\ prev.op = "assignRoleToUser" /\ prev.ret /\ same ) => call.ret
            /\ ( /\ call.op = "userHasRole"
                 /\ prev.op = "removeRoleFromUser" /\ prev.ret /\ same ) => ~call.ret
            /\ ( /\ call.op = "getUserRoles"
                 /\ prev.op = "seedRolesAndPermissions"
                 /\ call.userId \in SampleEmails ) =>
                  call.list = <<SampleRole(call.userId)>>

\* a user that keeps another role is asked for the role just removed
C23_Witness ==
    /\ call.op = "userHasRole"
    /\ prev.op = "removeRoleFromUser"
    /\ prev.ret
    /\ call.userId = prev.userId
    /\ call.name = prev.name
    /\ ~call.ret
    /\ Held(call.userId) # {}

\* C24: after seeding, the admin role holds every permission name of the
\* seeded catalog.
C24_AdminHoldsAllPermissions ==
    call.op = "seedRolesAndPermissions" =>
        /\ "admin" \in DOMAIN roleRows
        /\ Range(CatalogNames) \subseteq roleRows["admin"]

C26_VerifyEmailIdempotent ==
    [][call'.op = "verifyEmail" =>
          LET id == call'.userId
              kind == call'.name
              known == kind = "code" /\ id \in DOMAIN accounts
          IN  /\ (known /\ ~accounts[id].isActive /\ call'.failedAt = 0) =>
                    /\ accounts'[id].isActive
                    /\ call'.updates = 1
                    /\ call'.success /\ call'.status = 200
              /\ (known /\ accounts[id].isActive /\ call'.failedAt = 0) =>
                    /\ call'.success /\ call'.status = 200
                    /\ call'.updates = 0
                    /\ accounts' = accounts
              /\ kind \in {"object", "string"} =>
                    /\ call'.status = 400
                    /\ call'.message = "Invalid token format"
                    /\ call'.lookups = 0
              /\ (kind = "code" /\ ~known /\ call'.failedAt = 0) =>
                    call'.status = 404 /\ call'.message = "User not found"
              /\ ~call'.success => accounts' = accounts]_vars

\* C27: when the minimum role name is not a key of the hierarchy table,
\* userHasMinimumRoleLevel returns true for every user holding at least one
\* role.
C27_UnknownMinimumGrants ==
    ( /\ call.op = "userHasMinimumRoleLevel"
      /\ call.name \notin DOMAIN hierarchy
      /\ Held(call.userId) # {} ) => call.ret

\* C28: a seed run resets every sample user to exactly the one role the seed
\* gives it, whatever assignRoleToUser added or removeRoleFromUser took away
\* before, and leaves the role list of every other user unchanged.
C28_SeedResetsSampleUsers ==
    [][call'.op = "seedRolesAndPermissions" =>
          /\ \A u \in SampleEmails :
                u \in DOMAIN userRows' /\ userRows'[u] = <<SampleRole(u)>>
          /\ \A u \in DOMAIN userRows \ SampleEmails :
                u \in DOMAIN userRows' /\ userRows'[u] = userRows[u]
          /\ DOMAIN userRows' = DOMAIN userRows \cup SampleEmails]_vars

\* the seed runs right after a sample user lost its seeded role, with a
\* registered user holding a role of its own
C28_Witness ==
    /\ call.op = "seedRolesAndPermissions"
    /\ prev.op = "removeRoleFromUser"
    /\ prev.ret
    /\ prev.userId \in SampleEmails
    /\ prev.name = SampleRole(prev.userId)
    /\ userRows[prev.userId] = <<SampleRole(prev.userId)>>
    /\ Held("u1") # {}

\* the permission names getUserPermissions returns
PermSet(userId) == Range(getUserPermissions(userId))

\* C29: assignRoleToUser(U, r) never shrinks getUserPermissions(U), and when
\* it returns true the result covers getRolePermissions(r);
\* removeRoleFromUser(U, r) never grows getUserPermissions(U).
\* (the value before the call is the union over the roles the call loaded:
\* neither operation writes a role row)
C29_RoleChangesAreMonotone ==
    LET before == UNION {roleRows[r] : r \in Range(call.before)}
    IN  /\ call.op = "assignRoleToUser" =>
              /\ before \subseteq PermSet(call.userId)
              /\ call.ret =>
                    Range(getRolePermissions(call.name)) \subseteq PermSet(call.userId)
        /\ call.op = "removeRoleFromUser" => PermSet(call.userId) \subseteq before

\* a second role was assigned and it brought permissions the user lacked
C29_Witness ==
    /\ call.op = "assignRoleToUser"
    /\ call.ret
    /\ call.saved
    /\ call.before # <<>>
    /\ roleRows[call.name] \ UNION {roleRows[r] : r \in Range(call.before)} # {}
    /\ UNION {roleRows[r] : r \in Range(call.before)} \ roleRows[call.name] # {}

\* C30: the role names the seed creates, the keys of the hierarchy table and
\* the values of ROLES are the same set, so getRoleHierarchy is greater than
\* 0 exactly for the seeded role names; every value of PERMISSIONS is a
\* permission name of the seeded catalog.
C30_RoleNameSourcesAgree ==
    /\ Range(rolesData) = DOMAIN hierarchy
    /\ {ROLES[k] : k \in DOMAIN ROLES} = DOMAIN hierarchy
    /\ {PERMISSIONS[k] : k \in DOMAIN PERMISSIONS} \subseteq Range(CatalogNames)
    /\ call.op = "getRoleHierarchy" =>
          ((call.level.type = "number" /\ call.level.num > 0)
              <=> call.name \in Range(rolesData))
    /\ call.op = "seedRolesAndPermissions" =>
          /\ {ROLES[k] : k \in DOMAIN ROLES} \subseteq DOMAIN roleRows
          /\ {PERMISSIONS[k] : k \in DOMAIN PERMISSIONS} \subseteq permRows

\* the level of a role the seed created is asked for
C30_Witness ==
    /\ call.op = "getRoleHierarchy"
    /\ call.name = ROLES.GUEST
    /\ call.level.num > 0
    /\ prev.op = "seedRolesAndPermissions"
    /\ call.name \in DOMAIN roleRows

\* what a request leaves as the user's role list when it runs alone on the
\* users table rows
SoloRoles(rows, r) ==
    LET old == rows[r.userId]
    IN  IF r.op = "assignRoleToUser" /\ RoleExists(r.name) /\ r.name \notin Range(old)
        THEN Append(old, r.name)
        ELSE IF r.op = "removeRoleFromUser"
        THEN SelectSeq(old, LAMBDA n : n # r.name)
        ELSE old

\* what a request returns when it runs alone on the users table rows
SoloRet(rows, r) ==
    /\ r.userId \in DOMAIN rows
    /\ \/ r.op = "assignRoleToUser" /\ RoleExists(r.name)
       \/ r.op = "removeRoleFromUser" /\ r.name \in Range(rows[r.userId])

\* C21: requests on different users do not interfere: whatever the
\* interleaving of the read and save steps of a request on U with a request
\* on V, the finished request on V has the result, and V the role list, that
\* the request on V gives when it runs alone.
C21_DifferentUsersDoNotInterfere ==
    \A c \in Callers, d \in Callers :
        LET r == inflight.of[c]
        IN  ( /\ r.pc = "done"
              /\ inflight.of[d].pc # "idle"
              /\ inflight.of[d].userId # r.userId ) =>
                /\ r.ret = SoloRet(inflight.base, r)
                /\ r.userId \in DOMAIN inflight.base =>
                      /\ userRows[r.userId] = SoloRoles(inflight.base, r)
                      /\ r.op = "getUserRoles" => r.list = inflight.base[r.userId]
                /\ r.userId \notin DOMAIN inflight.base => r.list = <<>>

\* a removal on one user and an assignment on another, both saved
C21_Witness ==
    /\ AllDone
    /\ inflight.of["a"].op = "removeRoleFromUser"
    /\ inflight.of["b"].op = "assignRoleToUser"
    /\ inflight.of["a"].userId # inflight.of["b"].userId
    /\ inflight.of["a"].saved
    /\ inflight.of["b"].saved
    /\ inflight.base[inflight.of["b"].userId] # <<>>

\* the role set a request computes from the list it read
Computed(r) ==
    IF r.op = "assignRoleToUser" THEN Range(r.loaded) \cup {r.name}
    ELSE Range(r.loaded) \ {r.name}

\* C22: concurrent assignRoleToUser/removeRoleFromUser requests on the same
\* user are last-write-wins on the whole role set: every save replaces the
\* user's role set by the one the saving request computed from its own read,
\* whatever was saved since that read.
C22_LastWriteWins ==
    [][\A c \in Callers :
          (inflight.of[c].pc = "saving" /\ inflight'.of[c].pc = "done") =>
             /\ Range(userRows'[inflight.of[c].userId]) = Computed(inflight.of[c])
             /\ inflight'.of[c].ret]_vars

\* the user's role set after the requests a then b, one after the other
SerialRoles(rows, a, b) ==
    LET mid == [rows EXCEPT ![a.userId] = SoloRoles(rows, a)]
    IN  Range(SoloRoles(mid, b))

\* an interleaving whose result differs from both serial orders: two
\* assignments of different roles to the same user, both returning true, with
\* one of the two roles lost
C22_Witness ==
    LET a == inflight.of["a"]
        b == inflight.of["b"]
    IN  /\ AllDone
        /\ a.userId = b.userId
        /\ a.op = "assignRoleToUser" /\ b.op = "assignRoleToUser"
        /\ a.saved /\ b.saved
        /\ a.ret /\ b.ret
        /\ Range(userRows[a.userId]) # SerialRoles(inflight.base, a, b)
        /\ Range(userRows[a.userId]) # SerialRoles(inflight.base, b, a)
        /\ \E c \in Callers : Range(userRows[a.userId]) = Computed(inflight.of[c])

====
